---------------------------- MODULE Spec2Model ----------------------------
(***************************************************************************)
(* The COVID-19 dashboard of src/app.py and src/covid19/app.py: two        *)
(* near-identical Streamlit scripts.  A script is re-executed from top to  *)
(* bottom on every widget interaction; one execution loads the cached      *)
(* Dataset, reads the widgets, filters, and computes every aggregation.    *)
(*                                                                         *)
(* A data frame is a sequence of rows; a row is a function from column     *)
(* names to cells; the index label of a row is its position.  A cell of a  *)
(* nullable column is <<>> (NaN) or <<v>>.  The Date column holds day      *)
(* numbers: the input file's dates are parseable calendar dates without a  *)
(* time of day, so pd.to_datetime and .dt.date agree on them.              *)
(***************************************************************************)
EXTENDS Integers, Sequences, FiniteSets

VARIABLES
    variant,      \* which script runs: "app" (src/app.py) or "covid19"
    file_exists,  \* covid_19_indonesia_clean.csv is on disk
    csv_columns,  \* header of the file
    csv_rows,     \* rows of the file
    cache,        \* st.cache_data store of load_data: <<>> or <<frame>>
    widgets,      \* widgets created by the latest run
    provinces,    \* value of the multiselect (in selection order)
    start_date,   \* value of the first date_input
    end_date,     \* value of the second date_input
    show_all,     \* value of the checkbox
    df,           \* Dataset of the latest run: [columns, rows]
    halt,         \* where the latest run stopped ("none": ran to the footer)
    executed,     \* sections of the script the latest run completed
    skipped,      \* sections that found a column missing and computed nothing
    notices,      \* st.warning / st.error messages of the latest run
    charts,       \* figures, tabs and tables the latest run rendered
    filtered_df,  \* index labels of the Filtered View
    bar_data, scat_df, pie_df, area_df, pie_rec_df, corr_df, show_df

widgetVars == <<widgets, provinces, start_date, end_date, show_all>>
fileVars   == <<variant, file_exists, csv_columns, csv_rows>>
runVars    == <<df, halt, executed, skipped, notices, charts, filtered_df, bar_data,
                scat_df, pie_df, area_df, pie_rec_df, corr_df, show_df>>
vars       == <<fileVars, cache, widgetVars, runVars>>

---------------------------------------------------------------------------
(* Bounds of the model *)
MaxRows == 2
MaxDate == 2

Dates == 1..MaxDate

\* Province names, in the order sorted() gives them.
ProvinceOrder == <<"Aceh", "Bali">>

Regions == {ProvinceOrder[i] : i \in 1..Len(ProvinceOrder)}

---------------------------------------------------------------------------
(* Cells and columns *)
Null == <<>>

Cell(v) == <<v>>

IsNull(c) == c = Null

MandatoryColumns == {"Date", "Province"}

OptionalColumns ==
    {"New Cases", "New Deaths", "New Recovered", "Total Cases",
     "Total Deaths", "Total Recovered", "Total Active Cases"}

AllColumns == MandatoryColumns \cup OptionalColumns

MkRow(p, d, tc, td, o) ==
    [c \in AllColumns |->
        CASE c = "Date" -> d
          [] c = "Province" -> p
          [] c = "Total Cases" -> tc
          [] c = "Total Deaths" -> td
          [] OTHER -> o]

Restrict(row, cols) == [c \in cols |-> row[c]]

Range(s) == {s[i] : i \in 1..Len(s)}

\* Sequences over S of length 1..n
SeqsUpTo(S, n) == UNION {[1..k -> S] : k \in 1..n}

\* The sequences that enumerate the set S without repetition
Perms(S) ==
    LET n == Cardinality(S)
    IN  {s \in [1..n -> S] : \A i, j \in 1..n : i # j => s[i] # s[j]}


Index(n) == [i \in 1..n |-> i]

Min(a, b) == IF a <= b THEN a ELSE b

\* The elements of a finite set of integers in ascending order
RECURSIVE SortedSeq(_)
SortedSeq(S) ==
    IF S = {} THEN <<>>
    ELSE LET m == CHOOSE x \in S : \A y \in S : x <= y
         IN  <<m>> \o SortedSeq(S \ {m})

---------------------------------------------------------------------------
(* load_data *)

\* A frame with no columns and no rows: the value of df before it is bound.
NoFrame == [columns |-> {}, rows |-> <<>>]

\* Day 1 is 1 January 2020.
YearOf(d) == 2020 + ((d - 1) \div 366)

\* pd.read_csv
read_csv == [columns |-> csv_columns, rows |-> csv_rows]

\* df["year"] = df["Date"].dt.year
WithYear(frame) ==
    [columns |-> frame.columns \cup {"year"},
     rows |-> [i \in 1..Len(frame.rows) |->
                 [c \in frame.columns \cup {"year"} |->
                     IF c = "year" THEN YearOf(frame.rows[i]["Date"])
                     ELSE frame.rows[i][c]]]]

\* The body of load_data in src/app.py.  st.stop takes no argument, so
\* st.stop("...") raises instead of stopping quietly; either way the run ends
\* there.
load_data_app ==
    IF ~file_exists THEN [halt |-> "load_data:file", df |-> NoFrame, notices |-> {}]
    ELSE IF "Date" \notin read_csv.columns
         THEN [halt |-> "load_data:Date", df |-> NoFrame, notices |-> {}]
         ELSE [halt |-> "none", df |-> read_csv, notices |-> {}]

\* The body of load_data in src/covid19/app.py: a missing Date column is only
\* a warning, and the frame is returned as read.
load_data_covid19 ==
    IF ~file_exists THEN [halt |-> "load_data:file", df |-> NoFrame, notices |-> {}]
    ELSE IF "Date" \in read_csv.columns
         THEN [halt |-> "none", df |-> WithYear(read_csv), notices |-> {}]
         ELSE [halt |-> "none", df |-> read_csv, notices |-> {"Date column missing"}]

\* @st.cache_data: the body runs on a miss only; a hit returns the stored
\* frame and replays the st.warning the body made.  A raising body stores
\* nothing.
load_data ==
    IF cache # <<>> THEN cache[1]
    ELSE IF variant = "app" THEN load_data_app ELSE load_data_covid19

---------------------------------------------------------------------------
(* Sidebar and filter *)

\* sorted(df["Province"].dropna().unique())
provinsi_list(frame) ==
    SelectSeq(ProvinceOrder,
              LAMBDA p : \E i \in 1..Len(frame.rows) :
                            frame.rows[i]["Province"] = Cell(p))

\* default=provinsi_list[:3]
default_provinces(frame) ==
    SubSeq(provinsi_list(frame), 1, Min(3, Len(provinsi_list(frame))))

min_date(frame) ==
    CHOOSE d \in {frame.rows[i]["Date"] : i \in 1..Len(frame.rows)} :
        \A i \in 1..Len(frame.rows) : d <= frame.rows[i]["Date"]

max_date(frame) ==
    CHOOSE d \in {frame.rows[i]["Date"] : i \in 1..Len(frame.rows)} :
        \A i \in 1..Len(frame.rows) : d >= frame.rows[i]["Date"]

\* A faulty mask_tgl that leaves the end date out of the interval
mask_tgl_end_excluded(frame, s, e) ==
    [i \in 1..Len(frame.rows) |->
        frame.rows[i]["Date"] >= s /\ frame.rows[i]["Date"] < e]

mask_tgl(frame, s, e) ==
    [i \in 1..Len(frame.rows) |->
        frame.rows[i]["Date"] >= s /\ frame.rows[i]["Date"] <= e]

\* Series.isin: NaN is in no list of names
mask_prov(frame, provs) ==
    [i \in 1..Len(frame.rows) |->
        \E k \in 1..Len(provs) : frame.rows[i]["Province"] = Cell(provs[k])]

\* A faulty filter that narrows the previous Filtered View instead of the
\* Dataset
FilterFrame_of_previous(frame, provs, s, e) ==
    LET tgl == mask_tgl(frame, s, e)
        prov == mask_prov(frame, provs)
    IN  SelectSeq(filtered_df, LAMBDA i : tgl[i] /\ prov[i])

\* df[mask_tgl & mask_prov]: the rows keep their index labels and order
FilterFrame(frame, provs, s, e) ==
    LET tgl == mask_tgl(frame, s, e)
        prov == mask_prov(frame, provs)
    IN  SelectSeq(Index(Len(frame.rows)), LAMBDA i : tgl[i] /\ prov[i])

---------------------------------------------------------------------------
(* pandas operations used by the aggregations.  A Series or grouped frame   *)
(* is a sequence of entries [key, val], val a function from the selected    *)
(* columns to cells.                                                        *)

\* sort_values("Date") of the rows labelled idx.  The default sort is not
\* stable, so rows of equal Date come out in any order: every ascending
\* arrangement is a possible result.
SortValues(frame, idx) ==
    {s \in Perms(Range(idx)) :
        \A i, j \in 1..Len(s) :
            i < j => frame.rows[s[i]]["Date"] <= frame.rows[s[j]]["Date"]}

\* The group keys of groupby("Province"): the non-null names, sorted
GroupKeys(frame, idx) ==
    SelectSeq(ProvinceOrder,
              LAMBDA p : \E i \in Range(idx) : frame.rows[i]["Province"] = Cell(p))

\* GroupBy.last() for one group and one column: the last non-null cell of
\* the column in the group's row order, NaN when the group has none.
LastValid(frame, idx, p, col) ==
    LET group == SelectSeq(idx, LAMBDA i : frame.rows[i]["Province"] = Cell(p))
        valid == SelectSeq(group, LAMBDA i : ~IsNull(frame.rows[i][col]))
    IN  IF valid = <<>> THEN Null ELSE frame.rows[valid[Len(valid)]][col]

\* groupby("Province")[cols].last(): each column is reduced on its own
GroupByLast(frame, idx, cols) ==
    LET keys == GroupKeys(frame, idx)
    IN  [k \in 1..Len(keys) |->
            [key |-> keys[k],
             val |-> [c \in cols |-> LastValid(frame, idx, keys[k], c)]]]

\* A faulty reindex that leaves the series as groupby produced it
Reindex_omitted(series, labels, cols) == series

\* reindex(labels): one entry per label, in the labels' order; a label the
\* series lacks gets NaN
Reindex(series, labels, cols) ==
    [k \in 1..Len(labels) |->
        IF \E j \in 1..Len(series) : series[j].key = labels[k]
        THEN series[CHOOSE j \in 1..Len(series) : series[j].key = labels[k]]
        ELSE [key |-> labels[k], val |-> [c \in cols |-> Null]]]

\* fillna(0)
FillNa(series) ==
    [k \in 1..Len(series) |->
        [key |-> series[k].key,
         val |-> [c \in DOMAIN series[k].val |->
                    IF IsNull(series[k].val[c]) THEN Cell(0) ELSE series[k].val[c]]]]

\* dropna(): entries with a NaN in any column are removed
DropNa(series) ==
    SelectSeq(series, LAMBDA e : \A c \in DOMAIN e.val : ~IsNull(e.val[c]))

\* sum() of a column over the rows labelled idx; NaN counts as nothing
RECURSIVE SumCells(_, _, _)
SumCells(frame, idx, col) ==
    IF idx = <<>> THEN 0
    ELSE (IF IsNull(frame.rows[Head(idx)][col]) THEN 0
          ELSE frame.rows[Head(idx)][col][1])
         + SumCells(frame, Tail(idx), col)

\* A faulty daily reduction that keeps the last row's value of each date
\* instead of the sum
GroupBySum_last(frame, idx, col) ==
    LET keys == SortedSeq({frame.rows[i]["Date"] : i \in Range(idx)})
    IN  [k \in 1..Len(keys) |->
            [key |-> keys[k],
             val |-> LET g == SelectSeq(idx, LAMBDA i : frame.rows[i]["Date"] = keys[k])
                     IN  SumCells(frame, <<g[Len(g)]>>, col)]]

\* groupby("Date")[col].sum(): one entry per date, keys sorted
GroupBySum(frame, idx, col) ==
    LET keys == SortedSeq({frame.rows[i]["Date"] : i \in Range(idx)})
    IN  [k \in 1..Len(keys) |->
            [key |-> keys[k],
             val |-> SumCells(frame,
                              SelectSeq(idx, LAMBDA i : frame.rows[i]["Date"] = keys[k]),
                              col)]]

\* sort_index() of a series with distinct integer keys
SortIndex(series) ==
    LET keys == SortedSeq({series[k].key : k \in 1..Len(series)})
    IN  [k \in 1..Len(keys) |->
            series[CHOOSE j \in 1..Len(series) : series[j].key = keys[k]]]

\* The columns the heatmap asks for, in the order of the list in the script
HeatmapColumns ==
    IF variant = "app"
    THEN <<"New Cases", "New Deaths", "New Recovered", "Total Cases",
           "Total Deaths", "Total Recovered", "Total Active Cases">>
    ELSE <<"New Cases", "New Deaths", "Total Cases", "Total Deaths",
           "Total Active Cases">>

\* filtered_df[cols].dropna(): the columns kept and the labels of the rows
\* with no NaN among them
CorrFrame(frame, idx) ==
    LET cols == SelectSeq(HeatmapColumns, LAMBDA c : c \in frame.columns)
    IN  [cols |-> cols,
         rows |-> SelectSeq(idx, LAMBDA i : \A c \in Range(cols) :
                                               ~IsNull(frame.rows[i][c]))]

cols_show == {"Date", "Province", "New Cases", "New Deaths", "New Recovered"}

\* filtered_df[filtered_df["Province"] == prov][cols_show]
\*     .sort_values("Date").reset_index(drop=True), srt being the sorted
\* arrangement of the Filtered View the sort produces
ShowDf(frame, srt, prov) ==
    LET sel == SelectSeq(srt, LAMBDA i : frame.rows[i]["Province"] = Cell(prov))
    IN  [k \in 1..Len(sel) |-> Restrict(frame.rows[sel[k]], cols_show)]

---------------------------------------------------------------------------
(* One execution of the script.  A run is a record of everything the       *)
(* script binds; each section below takes the run so far and returns the   *)
(* run after it.  An uncaught exception or st.stop ends the run: halt      *)
(* names the place and the later sections leave the run as it is.          *)

NoCorr == [cols |-> <<>>, rows |-> <<>>]

\* The run before its first statement
Blank ==
    [halt |-> "none", cache |-> cache, df |-> NoFrame, executed |-> {},
     skipped |-> {},
     notices |-> {}, charts |-> {}, widgets |-> {}, provinces |-> <<>>,
     start_date |-> 0, end_date |-> 0, show_all |-> TRUE,
     filtered_df |-> <<>>, bar_data |-> <<>>, scat_df |-> <<>>,
     pie_df |-> <<>>, area_df |-> <<>>, pie_rec_df |-> <<>>,
     corr_df |-> NoCorr, show_df |-> <<>>]

\* st.warning(...) of src/covid19/app.py; src/app.py stays silent there
Warn(msg) == IF variant = "covid19" THEN {msg} ELSE {}

\* df = load_data()
Load(r) ==
    LET ld == load_data
    IN  IF ld.halt # "none"
        THEN [r EXCEPT !.halt = ld.halt]
        ELSE [r EXCEPT !.df = ld.df,
                       !.notices = ld.notices,
                       !.cache = <<ld>>,
                       !.executed = @ \cup {"load_data"}]

\* if "Province" not in df.columns: st.stop(...), then the multiselect.
\* ws is the widget state the run starts with; a widget that exists keeps
\* its value, a new one takes its default.
Multiselect(r, ws) ==
    IF r.halt # "none" THEN r
    ELSE IF "Province" \notin r.df.columns THEN [r EXCEPT !.halt = "Province"]
    ELSE [r EXCEPT !.provinces = IF "provinces" \in ws.widgets
                                 THEN ws.provinces
                                 ELSE default_provinces(r.df),
                   !.widgets = @ \cup {"provinces"},
                   !.executed = @ \cup {"provinces"}]

\* min_date, max_date, the two date_input widgets and the range check.
\* df["Date"] raises KeyError when the column is missing.
DateInputs(r, ws) ==
    IF r.halt # "none" THEN r
    ELSE IF "Date" \notin r.df.columns THEN [r EXCEPT !.halt = "min_date"]
    ELSE LET s == IF "start_date" \in ws.widgets THEN ws.start_date
                  ELSE min_date(r.df)
             e == IF "end_date" \in ws.widgets THEN ws.end_date
                  ELSE max_date(r.df)
         IN  [r EXCEPT !.start_date = s,
                       !.end_date = e,
                       !.notices = @ \cup (IF s > e THEN {"InvalidDateRange"} ELSE {}),
                       !.widgets = @ \cup {"start_date", "end_date"},
                       !.executed = @ \cup {"date_input"}]

\* filtered_df = df[mask_tgl & mask_prov], then the checkbox
Filter(r, ws) ==
    IF r.halt # "none" THEN r
    ELSE [r EXCEPT !.filtered_df = FilterFrame(r.df, r.provinces,
                                               r.start_date, r.end_date),
                   !.show_all = IF "show_all" \in ws.widgets THEN ws.show_all
                                ELSE TRUE,
                   !.widgets = @ \cup {"show_all"},
                   !.executed = @ \cup {"filter"}]

Startup(ws) ==
    LET r1 == Load(Blank)
        r2 == Multiselect(r1, ws)
        r3 == DateInputs(r2, ws)
    IN  Filter(r3, ws)

\* Total cases per province (bar chart).  The column is not checked for.
Bar(r, srt) ==
    IF r.halt # "none" THEN r
    ELSE IF "Total Cases" \notin r.df.columns THEN [r EXCEPT !.halt = "bar_data"]
    ELSE LET res == FillNa(Reindex(GroupByLast(r.df, srt, {"Total Cases"}),
                                   r.provinces, {"Total Cases"}))
         IN  [r EXCEPT !.bar_data = res,
                       !.charts = @ \cup (IF res # <<>> THEN {"bar"} ELSE {}),
                       !.notices = @ \cup (IF res = <<>> THEN Warn("bar: no data") ELSE {}),
                       !.executed = @ \cup {"bar"}]

\* Cases against deaths (scatter plot)
Scatter(r, srt) ==
    IF r.halt # "none" THEN r
    ELSE IF ~({"Total Cases", "Total Deaths"} \subseteq r.df.columns)
    THEN [r EXCEPT !.notices = @ \cup Warn("scatter: columns missing"),
                   !.skipped = @ \cup {"scatter"},
                   !.executed = @ \cup {"scatter"}]
    ELSE LET res == DropNa(Reindex(GroupByLast(r.df, srt,
                                               {"Total Cases", "Total Deaths"}),
                                   r.provinces, {"Total Cases", "Total Deaths"}))
         IN  [r EXCEPT !.scat_df = res,
                       !.charts = @ \cup (IF res # <<>> THEN {"scatter"} ELSE {}),
                       !.notices = @ \cup (IF res = <<>> THEN Warn("scatter: no data") ELSE {}),
                       !.executed = @ \cup {"scatter"}]

\* Pie chart of total cases.  The column is not checked for either, but the
\* bar chart has already used it.
Pie(r, srt) ==
    IF r.halt # "none" THEN r
    ELSE IF "Total Cases" \notin r.df.columns THEN [r EXCEPT !.halt = "pie_df"]
    ELSE LET res == DropNa(Reindex(GroupByLast(r.df, srt, {"Total Cases"}),
                                   r.provinces, {"Total Cases"}))
         IN  [r EXCEPT !.pie_df = res,
                       !.charts = @ \cup (IF res # <<>> THEN {"pie"} ELSE {}),
                       !.notices = @ \cup (IF res = <<>> THEN Warn("pie: no data") ELSE {}),
                       !.executed = @ \cup {"pie"}]

\* National daily trend (area chart)
Area(r) ==
    IF r.halt # "none" THEN r
    ELSE IF "Total Cases" \notin r.df.columns
    THEN [r EXCEPT !.notices = @ \cup Warn("area: column missing"),
                   !.skipped = @ \cup {"area"},
                   !.executed = @ \cup {"area"}]
    ELSE LET res == SortIndex(GroupBySum(r.df, r.filtered_df, "Total Cases"))
         IN  [r EXCEPT !.area_df = res,
                       !.charts = @ \cup (IF res # <<>> THEN {"area"} ELSE {}),
                       !.notices = @ \cup (IF res = <<>> THEN Warn("area: no data") ELSE {}),
                       !.executed = @ \cup {"area"}]

\* Pie chart of recovered patients: src/app.py only
PieRec(r, srt) ==
    IF r.halt # "none" \/ variant # "app" THEN r
    ELSE IF ~({"Province", "Total Recovered"} \subseteq r.df.columns)
    THEN [r EXCEPT !.skipped = @ \cup {"pie_rec"},
                   !.executed = @ \cup {"pie_rec"}]
    ELSE LET res == DropNa(Reindex(GroupByLast(r.df, srt, {"Total Recovered"}),
                                   r.provinces, {"Total Recovered"}))
         IN  [r EXCEPT !.pie_rec_df = res,
                       !.charts = @ \cup (IF res # <<>> THEN {"pie_rec"} ELSE {}),
                       !.executed = @ \cup {"pie_rec"}]

\* Correlation heatmap.  The coefficients themselves are not modelled: the
\* run records the frame corr() is applied to and whether it is drawn.
Heatmap(r) ==
    IF r.halt # "none" THEN r
    ELSE LET res == CorrFrame(r.df, r.filtered_df)
             drawn == res.rows # <<>> /\ Len(res.cols) >= 2
         IN  [r EXCEPT !.corr_df = res,
                       !.charts = @ \cup (IF drawn THEN {"heatmap"} ELSE {}),
                       !.notices = @ \cup (IF ~drawn THEN Warn("heatmap: not enough data") ELSE {}),
                       !.executed = @ \cup {"heatmap"}]

\* if show_all: the six sections in the order of the script
Charts(r, srt) ==
    IF r.halt # "none" \/ ~r.show_all THEN r
    ELSE LET r1 == Bar(r, srt)
             r2 == Scatter(r1, srt)
             r3 == Pie(r2, srt)
             r4 == Area(r3)
             r5 == PieRec(r4, srt)
         IN  Heatmap(r5)

\* The detail table: one tab per selected province.  cols_show is not
\* checked for; the selection raises KeyError in the first tab.
Table(r, srt) ==
    IF r.halt # "none" THEN r
    ELSE IF r.filtered_df = <<>>
    THEN [r EXCEPT !.notices = @ \cup Warn("table: no data"),
                   !.executed = @ \cup {"table"}]
    ELSE IF ~(cols_show \subseteq r.df.columns)
    THEN [r EXCEPT !.halt = "show_df", !.charts = @ \cup {"tabs"}]
    ELSE [r EXCEPT !.show_df = [k \in 1..Len(r.provinces) |->
                                   ShowDf(r.df, srt, r.provinces[k])],
                   !.charts = @ \cup {"tabs", "table"},
                   !.executed = @ \cup {"table"}]

Footer(r) ==
    IF r.halt # "none" THEN r ELSE [r EXCEPT !.executed = @ \cup {"footer"}]

---------------------------------------------------------------------------
(* The session *)

\* The widget state a run starts with
WidgetState(w, p, s, e, a) ==
    [widgets |-> w, provinces |-> p, start_date |-> s, end_date |-> e,
     show_all |-> a]

\* Streamlit re-executes the script with the widget state ws and keeps what
\* the run bound.  The sort of the chart sections and the sort of the table
\* each pick one of the possible arrangements.
Rerun(ws) ==
    \E pre \in {Startup(ws)} :
    \E srt \in SortValues(pre.df, pre.filtered_df) :
    \E rc \in {Charts(pre, srt)} :
    \E srt2 \in SortValues(pre.df, pre.filtered_df) :
    \E r \in {Footer(Table(rc, srt2))} :
        /\ cache' = r.cache
        /\ widgets' = r.widgets
        /\ provinces' = r.provinces
        /\ start_date' = r.start_date
        /\ end_date' = r.end_date
        /\ show_all' = r.show_all
        /\ df' = r.df
        /\ halt' = r.halt
        /\ executed' = r.executed
        /\ skipped' = r.skipped
        /\ notices' = r.notices
        /\ charts' = r.charts
        /\ filtered_df' = r.filtered_df
        /\ bar_data' = r.bar_data
        /\ scat_df' = r.scat_df
        /\ pie_df' = r.pie_df
        /\ area_df' = r.area_df
        /\ pie_rec_df' = r.pie_rec_df
        /\ corr_df' = r.corr_df
        /\ show_df' = r.show_df
        /\ UNCHANGED fileVars

\* The files the session may find.  The dates of a file are day numbers
\* 1..MaxDate and a total recorded on day d is d.
\*
\* ValueFiles: every column is present, two provinces, one row per province
\* and date in any order; a row reports both totals or lacks one of them.
\* SchemaFiles: at most one column is missing; one province, some rows
\* without a province name, dates may repeat.
ValueRows ==
    UNION {{MkRow(Cell(p), d, t[1], t[2], Cell(1)) :
               p \in Regions,
               t \in {<<Cell(d), Cell(d)>>, <<Cell(d), Null>>, <<Null, Cell(d)>>}} :
           d \in Dates}

ValueFiles ==
    {rows \in SeqsUpTo(ValueRows, MaxRows) :
        \A i, j \in DOMAIN rows :
            i # j => \/ rows[i]["Province"] # rows[j]["Province"]
                     \/ rows[i]["Date"] # rows[j]["Date"]}

SchemaRows ==
    UNION {{MkRow(Cell(ProvinceOrder[1]), d, Cell(d), Cell(d), Cell(d)),
            MkRow(Null, d, Cell(d), Cell(d), Cell(d))} :
           d \in Dates}

Schemas == {AllColumns} \cup {AllColumns \ {c} : c \in AllColumns}

SchemaFiles(cols) ==
    {[i \in DOMAIN rows |-> Restrict(rows[i], cols)] :
        rows \in SeqsUpTo(SchemaRows, MaxRows)}

Init ==
    /\ \/ /\ variant = "app"
          /\ file_exists = TRUE
          /\ csv_columns = AllColumns
          /\ csv_rows \in ValueFiles
       \/ /\ variant \in {"app", "covid19"}
          /\ file_exists = TRUE
          /\ csv_columns \in Schemas
          /\ csv_rows \in SchemaFiles(csv_columns)
       \/ /\ variant \in {"app", "covid19"}
          /\ file_exists = FALSE
          /\ csv_columns = {}
          /\ csv_rows = <<>>
    /\ cache = <<>>
    /\ widgets = {}
    /\ provinces = <<>>
    /\ start_date = 0
    /\ end_date = 0
    /\ show_all = TRUE
    /\ df = NoFrame
    /\ halt = "not started"
    /\ executed = {}
    /\ skipped = {}
    /\ notices = {}
    /\ charts = {}
    /\ filtered_df = <<>>
    /\ bar_data = <<>>
    /\ scat_df = <<>>
    /\ pie_df = <<>>
    /\ area_df = <<>>
    /\ pie_rec_df = <<>>
    /\ corr_df = NoCorr
    /\ show_df = <<>>

\* The browser opens the page: the first run, every widget at its default
StartSession ==
    /\ halt = "not started"
    /\ Rerun(WidgetState({}, <<>>, 0, 0, TRUE))

\* The user adds a province to the multiselect
AddProvince ==
    /\ "provinces" \in widgets
    /\ \E p \in Range(provinsi_list(df)) \ Range(provinces) :
          Rerun(WidgetState(widgets, Append(provinces, p), start_date,
                            end_date, show_all))

\* The user removes a province from the multiselect
RemoveProvince ==
    /\ "provinces" \in widgets
    /\ \E k \in 1..Len(provinces) :
          Rerun(WidgetState(widgets,
                            SelectSeq(provinces, LAMBDA p : p # provinces[k]),
                            start_date, end_date, show_all))

\* The user picks a start date; the widget offers min_date..max_date
SetStartDate ==
    /\ "start_date" \in widgets
    /\ \E d \in min_date(df)..max_date(df) :
          /\ d # start_date
          /\ Rerun(WidgetState(widgets, provinces, d, end_date, show_all))

\* The user picks an end date
SetEndDate ==
    /\ "end_date" \in widgets
    /\ \E d \in min_date(df)..max_date(df) :
          /\ d # end_date
          /\ Rerun(WidgetState(widgets, provinces, start_date, d, show_all))

\* The user ticks or unticks the checkbox
ToggleShowAll ==
    /\ "show_all" \in widgets
    /\ Rerun(WidgetState(widgets, provinces, start_date, end_date, ~show_all))

Next ==
    \/ StartSession
    \/ AddProvince
    \/ RemoveProvince
    \/ SetStartDate
    \/ SetEndDate
    \/ ToggleShowAll

Spec == Init /\ [][Next]_vars

---------------------------------------------------------------------------
(* Properties *)

\* The labels of the Filtered View's rows of province p
RecordsOf(p) == {i \in Range(filtered_df) : df.rows[i]["Province"] = Cell(p)}

\* Row i of the Dataset meets the current Filter Criteria
MeetsCriteria(i) ==
    /\ \E k \in 1..Len(provinces) : df.rows[i]["Province"] = Cell(provinces[k])
    /\ start_date <= df.rows[i]["Date"]
    /\ df.rows[i]["Date"] <= end_date

\* C1: once the filter has run, the Filtered View holds exactly the Dataset
\* rows whose province is selected and whose date lies in [start, end]:
\* every row in it meets the criteria, every row meeting them is in it, and
\* no row is in it twice.
FilteredViewExact ==
    "filter" \in executed =>
        /\ Range(filtered_df) \subseteq 1..Len(df.rows)
        /\ \A i \in 1..Len(df.rows) : i \in Range(filtered_df) <=> MeetsCriteria(i)
        /\ Cardinality(Range(filtered_df)) = Len(filtered_df)

\* C1 witness: the filter kept one row and rejected another whose province
\* is selected, its date lying outside the interval
FilteredViewWitness ==
    /\ "filter" \in executed
    /\ filtered_df # <<>>
    /\ \E i \in 1..Len(df.rows) :
          /\ i \notin Range(filtered_df)
          /\ \E k \in 1..Len(provinces) : df.rows[i]["Province"] = Cell(provinces[k])

\* C4: the latest-totals result has one entry per selected province, in
\* the order of the selection; a selected province with no row in the
\* Filtered View has the value 0; so the result is empty only when nothing
\* is selected.
BarOnePerSelected ==
    "bar" \in executed =>
        /\ Len(bar_data) = Len(provinces)
        /\ \A k \in 1..Len(provinces) :
              /\ bar_data[k].key = provinces[k]
              /\ RecordsOf(provinces[k]) = {} =>
                     bar_data[k].val["Total Cases"] = Cell(0)
        /\ provinces # <<>> => bar_data # <<>>

\* C4 witness: two provinces selected against their sorted order, one with
\* rows in the Filtered View and one without
BarOnePerSelectedWitness ==
    /\ "bar" \in executed
    /\ Len(provinces) = 2
    /\ provinces[1] = ProvinceOrder[2]
    /\ \E k \in 1..2 : RecordsOf(provinces[k]) = {}
    /\ \E k \in 1..2 : RecordsOf(provinces[k]) # {}

\* Total cases summed over the Dataset rows labelled by the set S
RECURSIVE TotalCasesOf(_)
TotalCasesOf(S) ==
    IF S = {} THEN 0
    ELSE LET i == CHOOSE x \in S : TRUE
         IN  (IF IsNull(df.rows[i]["Total Cases"]) THEN 0
              ELSE df.rows[i]["Total Cases"][1])
             + TotalCasesOf(S \ {i})

\* The values of a series of numbers, summed
RECURSIVE SeriesTotal(_)
SeriesTotal(series) ==
    IF series = <<>> THEN 0 ELSE Head(series).val + SeriesTotal(Tail(series))

\* C5: the daily trend has one entry per date of the Filtered View, in
\* strictly ascending date order; an entry's value is the sum of total cases
\* over the Filtered View's rows of that date; the values add up to the total
\* cases of the whole Filtered View.
AreaTrendSums ==
    ("area" \in executed /\ "area" \notin skipped) =>
        /\ Len(area_df) = Cardinality({df.rows[i]["Date"] : i \in Range(filtered_df)})
        /\ \A k \in 1..Len(area_df) :
              /\ \E i \in Range(filtered_df) : df.rows[i]["Date"] = area_df[k].key
              /\ k < Len(area_df) => area_df[k].key < area_df[k + 1].key
              /\ area_df[k].val =
                     TotalCasesOf({i \in Range(filtered_df) :
                                      df.rows[i]["Date"] = area_df[k].key})
        /\ SeriesTotal(area_df) = TotalCasesOf(Range(filtered_df))

\* C5 witness: two rows of the Filtered View share a date and both report
\* total cases, so that date's entry is a sum of two
AreaTrendWitness ==
    /\ "area" \in executed
    /\ "area" \notin skipped
    /\ \E i, j \in Range(filtered_df) :
          /\ i # j
          /\ df.rows[i]["Date"] = df.rows[j]["Date"]
          /\ ~IsNull(df.rows[i]["Total Cases"])
          /\ ~IsNull(df.rows[j]["Total Cases"])

\* C10: whatever the user does, the cached Dataset stays the one the first
\* load produced, every run's df is that Dataset, and the Filtered View of a
\* run is the Dataset's rows meeting the criteria of that run, in file
\* order, whatever the criteria were before.
DatasetAndViewStable ==
    [][/\ cache # <<>> => cache' = cache
       /\ "load_data" \in executed' => df' = cache'[1].df
       /\ "filter" \in executed' =>
              filtered_df' = SortedSeq({i \in 1..Len(cache'[1].df.rows) :
                                           MeetsCriteria(i)'})]_vars

\* C10 witness: after changes to the selection and to the start date the
\* Filtered View is not empty
DatasetAndViewWitness ==
    /\ "filter" \in executed
    /\ provinces = <<ProvinceOrder[2]>>
    /\ start_date > min_date(df)
    /\ filtered_df # <<>>

\* The rows of province p in the Filtered View have pairwise different dates
DatesDistinct(p) ==
    \A i, j \in RecordsOf(p) : i # j => df.rows[i]["Date"] # df.rows[j]["Date"]

\* Row i is a row of province p with the greatest date in the Filtered View
IsLatest(i, p) ==
    /\ i \in RecordsOf(p)
    /\ \A j \in RecordsOf(p) : df.rows[j]["Date"] <= df.rows[i]["Date"]

\* C2: for a selected province whose rows in the Filtered View have the
\* dates d1 < ... < dn, the latest-per-province reduction yields the total
\* cases of the row dated dn, also when that cell is null: the totals chart
\* then shows 0 and the proportion chart drops the province.
LatestIsMaxDateRecord ==
    "pie" \in executed =>
        \A k \in 1..Len(provinces) :
            (RecordsOf(provinces[k]) # {} /\ DatesDistinct(provinces[k])) =>
                \E i \in RecordsOf(provinces[k]) :
                    /\ IsLatest(i, provinces[k])
                    /\ bar_data[k].val["Total Cases"] =
                           (IF IsNull(df.rows[i]["Total Cases"]) THEN Cell(0)
                            ELSE df.rows[i]["Total Cases"])
                    /\ IF IsNull(df.rows[i]["Total Cases"])
                       THEN \A j \in 1..Len(pie_df) : pie_df[j].key # provinces[k]
                       ELSE \E j \in 1..Len(pie_df) :
                               /\ pie_df[j].key = provinces[k]
                               /\ pie_df[j].val["Total Cases"] = df.rows[i]["Total Cases"]

\* C3: the cases-vs-deaths snapshot holds, for each province in it, the two
\* totals of one latest row of that province; a selected province is absent
\* from it exactly when it has no row in the Filtered View or a latest row
\* of it lacks one of the two totals.
ScatterPairFromLatestRecord ==
    ("scatter" \in executed /\ "scatter" \notin skipped) =>
        \A k \in 1..Len(provinces) :
            IF \E j \in 1..Len(scat_df) : scat_df[j].key = provinces[k]
            THEN \A j \in 1..Len(scat_df) :
                    scat_df[j].key = provinces[k] =>
                        \E i \in RecordsOf(provinces[k]) :
                            /\ IsLatest(i, provinces[k])
                            /\ ~IsNull(df.rows[i]["Total Cases"])
                            /\ ~IsNull(df.rows[i]["Total Deaths"])
                            /\ scat_df[j].val["Total Cases"] = df.rows[i]["Total Cases"]
                            /\ scat_df[j].val["Total Deaths"] = df.rows[i]["Total Deaths"]
            ELSE \/ RecordsOf(provinces[k]) = {}
                 \/ \E i \in RecordsOf(provinces[k]) :
                       /\ IsLatest(i, provinces[k])
                       /\ \/ IsNull(df.rows[i]["Total Cases"])
                          \/ IsNull(df.rows[i]["Total Deaths"])

\* The aggregations of the script that runs
Aggregations ==
    IF variant = "app"
    THEN {"bar", "scatter", "pie", "area", "pie_rec", "heatmap"}
    ELSE {"bar", "scatter", "pie", "area", "heatmap"}

\* The optional columns an aggregation cannot do without
Needs(section) ==
    CASE section = "bar" -> {"Total Cases"}
      [] section = "scatter" -> {"Total Cases", "Total Deaths"}
      [] section = "pie" -> {"Total Cases"}
      [] section = "area" -> {"Total Cases"}
      [] section = "pie_rec" -> {"Total Recovered"}
      [] OTHER -> {}

\* C6: with the start date after the end date the warning is shown, the
\* filter still runs and yields an empty Filtered View, and the run goes on
\* to the end: every aggregation (when the charts are switched on) and the
\* detail table complete.
InvalidRangeRunsThrough ==
    ("date_input" \in executed /\ start_date > end_date) =>
        /\ "InvalidDateRange" \in notices
        /\ "filter" \in executed
        /\ filtered_df = <<>>
        /\ halt = "none"
        /\ show_all => Aggregations \subseteq executed
        /\ "table" \in executed

\* C7: with an optional column missing, a run that reached the filter goes
\* on to the end, and of the aggregations exactly those that need the
\* column compute nothing.
MissingColumnSkipsOnlyItsCharts ==
    "filter" \in executed =>
        /\ halt = "none"
        /\ "table" \in executed
        /\ show_all =>
              \A section \in Aggregations :
                  /\ section \in executed
                  /\ section \in skipped <=> ~(Needs(section) \subseteq df.columns)

\* C8: when the file or a mandatory column is missing, the run ends where
\* that is found out: no widget is created and nothing beyond load_data is
\* executed.
StartupFailureHaltsAtOnce ==
    (/\ halt # "not started"
     /\ ~file_exists \/ ~(MandatoryColumns \subseteq csv_columns)) =>
        /\ halt # "none"
        /\ widgets = {}
        /\ executed \subseteq {"load_data"}

\* C9: with no province selected the Filtered View is empty, the run goes on
\* to the end, every aggregation and the detail table end with an empty
\* result, and nothing is drawn.
EmptySelectionAllEmpty ==
    ("filter" \in executed /\ provinces = <<>>) =>
        /\ filtered_df = <<>>
        /\ halt = "none"
        /\ charts = {}
        /\ show_all =>
              /\ Aggregations \subseteq executed
              /\ bar_data = <<>> /\ scat_df = <<>> /\ pie_df = <<>>
              /\ area_df = <<>> /\ pie_rec_df = <<>> /\ corr_df.rows = <<>>
        /\ "table" \in executed
        /\ show_df = <<>>

=============================================================================
